---- MODULE Spec2Model ----
(***************************************************************************)
(* A model of the voice agent of src/main.py: the MetricsTracker, its      *)
(* export to the spreadsheet sink, and VoiceAgent.entrypoint, the          *)
(* per-utterance loop STT -> LLM -> TTS -> send with its except/finally    *)
(* teardown.  main() registers the entrypoint of ONE VoiceAgent, so every  *)
(* job the worker runs uses the same MetricsTracker.                       *)
(*                                                                         *)
(* Time is counted in ticks, TicksPerSecond to the second; time.time() is  *)
(* the tick counter `clock`, and int(time.time()) truncates it to seconds. *)
(*                                                                         *)
(* Six specifications: SpecOne, the first job of a new worker alone;       *)
(* SpecSeq, the worker's jobs one after the other; Spec, the jobs          *)
(* interleaved at their awaits with another process at the file;           *)
(* SpecTracker, the MetricsTracker called directly in any order;           *)
(* SpecConfig, the first job in every environment of credentials;          *)
(* SpecValidate, src/config.py validated as src/test_setup.py does.        *)
(***************************************************************************)
EXTENDS Integers, Sequences, FiniteSets, TLC

\* ------------------------------------------------------------------ bounds
NJobs == 2
\* a single run: segments per stream, ticks of the clock
MaxSegments == 2
MaxTicks == 2
\* runs of several jobs
MultiSegments == 1
MultiTicks == 1
\* calls a client of the tracker makes, and the largest sample it records
MaxCalls == 3
MaxSample == 2
TicksPerSecond == 2
StartClock == 2
\* credentials a .env file adds to the environment
MaxDotenvKeys == 1

\* Python's None, and the empty cell (NaN) read back from the spreadsheet.
None == -1
NaN == -2

Jobs == 1..NJobs

VARIABLES
  clock,        \* time.time(), in ticks
  tracker,      \* voice_agent.metrics_tracker: [session_start, metrics]
  phase,        \* the recorder state of the specification laid over the tracker
  sink,         \* the rows of voice_agent_metrics.xlsx (<<>>: no file)
  sink0,        \* the rows the file held when the worker started
  sinkCorrupt,  \* the file exists but cannot be read (a write broke off)
  pc,           \* each job's position in entrypoint
  t0,           \* each job's start_stt (in stt) or start_llm (in llm, tts)
  start_tts,    \* each job's start_tts
  arrived,      \* segments the transport delivered to each job's audio stream
  taken,        \* segments each job's loop consumed
  stale,        \* audio arrived while the job's cycle was in flight
  sent,         \* audio responses each job handed to the transport
  df,           \* save_to_excel's DataFrame, between read and write
  endCalls,     \* end_session() calls made by each job
  saveCalls,    \* save_to_excel() calls made by each job
  ioFailed,     \* the job's save_to_excel caught an exception
  sid,          \* the session id each job generated
  raisedAt,     \* where the exception that ended the job's loop was raised
  bound,        \* the providers each job's entrypoint bound: stt, llm_service, tts
  environ,      \* os.environ once the modules are imported
  Config,       \* the class attributes of config.Config, read at its import
  config_status,\* what the latest call of Config.validate_config() returned
  test_results, \* SetupTester.test_results
  calls,        \* calls made on the tracker by a client other than entrypoint
  concurrent,   \* the worker runs its jobs interleaved, not one after the other
  peerPc,       \* another worker process exporting to the same file
  peerDf

trackerVars == <<tracker, phase>>
sinkVars == <<sink, sinkCorrupt>>
configVars == <<Config, config_status, test_results>>
constVars == <<concurrent, sink0, environ, configVars>>
streamVars == <<arrived, taken>>
jobVars == <<pc, t0, start_tts, stale, sent, df, endCalls, saveCalls, ioFailed, sid, raisedAt,
            bound>>
peerVars == <<peerPc, peerDf>>
vars == <<clock, constVars, calls, trackerVars, sinkVars, streamVars, jobVars, peerVars>>

\* ------------------------------------------------------- MetricsTracker
InitMetrics ==
  [session_id |-> None, start_time |-> None, end_time |-> None,
   total_duration |-> 0, interruptions_count |-> 0,
   stt_delays |-> <<>>, ttft_delays |-> <<>>, ttfd_delays |-> <<>>,
   total_latencies |-> <<>>,
   user_messages |-> 0, agent_responses |-> 0, errors |-> 0]

NewTracker == [session_start |-> None, metrics |-> InitMetrics]

start_session(self, session_id, now) ==
  [session_start |-> now,
   metrics |-> [self.metrics EXCEPT !.session_id = session_id,
                                    !.start_time = now]]

record_stt_delay(self, delay) ==
  [self EXCEPT !.metrics.stt_delays = Append(@, delay)]

record_ttft(self, delay) ==
  [self EXCEPT !.metrics.ttft_delays = Append(@, delay)]

record_ttfd(self, delay) ==
  [self EXCEPT !.metrics.ttfd_delays = Append(@, delay)]

record_total_latency(self, latency) ==
  [self EXCEPT !.metrics.total_latencies = Append(@, latency)]

record_interruption(self) ==
  [self EXCEPT !.metrics.interruptions_count = @ + 1]

record_user_message(self) ==
  [self EXCEPT !.metrics.user_messages = @ + 1]

record_agent_response(self) ==
  [self EXCEPT !.metrics.agent_responses = @ + 1]

record_error(self) ==
  [self EXCEPT !.metrics.errors = @ + 1]

\* `if self.session_start:` is false for None and for 0.0.
end_session(self, now) ==
  IF self.session_start # None /\ self.session_start # 0
  THEN [self EXCEPT !.metrics.end_time = now,
                    !.metrics.total_duration = now - self.session_start]
  ELSE self

\* ------------------------------------------------------- save_to_excel
RECURSIVE SumSeq(_)
SumSeq(s) == IF s = <<>> THEN 0 ELSE Head(s) + SumSeq(Tail(s))

RECURSIVE Gcd(_, _)
Gcd(a, b) == IF b = 0 THEN a ELSE Gcd(b, a % b)

\* A quotient of two naturals, as the fraction in lowest terms.
Frac(n, d) == LET g == Gcd(n, d) IN <<n \div g, d \div g>>

\* The quotient cut down to a whole number.
Average_Floored(xs) == IF xs # <<>> THEN <<SumSeq(xs) \div Len(xs), 1>> ELSE <<0, 1>>

\* sum(xs) / len(xs) if xs else 0
Average(xs) == IF xs # <<>> THEN Frac(SumSeq(xs), Len(xs)) ELSE <<0, 1>>

SeqMax(xs) == CHOOSE x \in {xs[i] : i \in 1..Len(xs)} :
                \A i \in 1..Len(xs) : xs[i] <= x
SeqMin(xs) == CHOOSE x \in {xs[i] : i \in 1..Len(xs)} :
                \A i \in 1..Len(xs) : x <= xs[i]

\* avg_latency < 2.0, the average in ticks
LatencyTargetMet(avg) == avg[1] < 2 * TicksPerSecond * avg[2]

\* summary_data: the one row a call of save_to_excel adds.
Summary(self) ==
  LET m == self.metrics
      avg_latency == Average(m.total_latencies)
  IN [session_id |-> m.session_id,
      start_time |-> m.start_time,
      end_time |-> m.end_time,
      total_duration |-> m.total_duration,
      user_messages |-> m.user_messages,
      agent_responses |-> m.agent_responses,
      interruptions |-> m.interruptions_count,
      avg_stt |-> Average(m.stt_delays),
      avg_ttft |-> Average(m.ttft_delays),
      avg_ttfd |-> Average(m.ttfd_delays),
      avg_latency |-> avg_latency,
      max_latency |-> IF m.total_latencies # <<>> THEN SeqMax(m.total_latencies) ELSE 0,
      min_latency |-> IF m.total_latencies # <<>> THEN SeqMin(m.total_latencies) ELSE 0,
      errors |-> m.errors,
      target_met |-> LatencyTargetMet(avg_latency)]

\* A cell written to the sheet and read back: None is written as an empty
\* cell, which pandas reads as NaN.
Cell(v) == IF v = None THEN NaN ELSE v

ToExcel(rows) ==
  [i \in 1..Len(rows) |->
     [rows[i] EXCEPT !.session_id = Cell(@), !.start_time = Cell(@),
                     !.end_time = Cell(@)]]

\* os.path.exists(filename)
FileExists == sink # <<>> \/ sinkCorrupt

\* The new row written over the file instead of appended to it.
ConcatExisting_Overwrite(existing, self) == <<Summary(self)>>

\* df = pd.DataFrame(summary_data); with a file, pd.concat([existing_df, df])
ConcatExisting(existing, self) == existing \o <<Summary(self)>>

\* ------------------------------------------- environment and config.py
\* An environment is a function from the names that are set to their
\* values: a credential's value is a string, TARGET_LATENCY's the number of
\* ticks its text stands for.
CredentialKeys ==
  {"LIVEKIT_API_KEY", "LIVEKIT_API_SECRET", "DEEPGRAM_API_KEY", "OPENAI_API_KEY",
   "GROQ_API_KEY", "ELEVENLABS_API_KEY", "CARTESIA_API_KEY"}
Stages == {"stt", "llm", "tts"}

\* `if os.getenv(name)`, `if cls.NAME`: neither None nor the empty string.
Truthy(env, name) == name \in DOMAIN env /\ env[name] # ""

\* load_dotenv(): the names of the .env file that the environment does not
\* set yet are added to it; a name that is set keeps its value.
load_dotenv(env, file) == env @@ file

\* float(os.getenv("TARGET_LATENCY", "2.0"))
DefaultTargetLatency == 2 * TicksPerSecond

\* class Config: the attributes, read from the environment when the module
\* is imported.  An attribute that is None is left out of the function.
LoadConfig(env) ==
  [name \in (DOMAIN env \cap CredentialKeys) \cup {"TARGET_LATENCY"} |->
     IF name \in DOMAIN env THEN env[name] ELSE DefaultTargetLatency]

\* priorities[stage].append(provider) if the provider's key is set
AppendIf(list, cls, name, provider) ==
  IF Truthy(cls, name) THEN Append(list, provider) ELSE list

\* The tts list with cartesia ranked before elevenlabs.
get_service_priority_Swapped(cls) ==
  [stt |-> AppendIf(AppendIf(<<>>, cls, "DEEPGRAM_API_KEY", "deepgram"),
                    cls, "OPENAI_API_KEY", "openai"),
   llm |-> AppendIf(AppendIf(<<>>, cls, "GROQ_API_KEY", "groq"),
                    cls, "OPENAI_API_KEY", "openai"),
   tts |-> AppendIf(AppendIf(AppendIf(<<>>, cls, "CARTESIA_API_KEY", "cartesia"),
                             cls, "ELEVENLABS_API_KEY", "elevenlabs"),
                    cls, "OPENAI_API_KEY", "openai")]

get_service_priority(cls) ==
  [stt |-> AppendIf(AppendIf(<<>>, cls, "DEEPGRAM_API_KEY", "deepgram"),
                    cls, "OPENAI_API_KEY", "openai"),
   llm |-> AppendIf(AppendIf(<<>>, cls, "GROQ_API_KEY", "groq"),
                    cls, "OPENAI_API_KEY", "openai"),
   tts |-> AppendIf(AppendIf(AppendIf(<<>>, cls, "ELEVENLABS_API_KEY", "elevenlabs"),
                             cls, "CARTESIA_API_KEY", "cartesia"),
                    cls, "OPENAI_API_KEY", "openai")]

\* f"No {service_type.upper()} service configured"
NoService(stage) ==
  CASE stage = "stt" -> "No STT service configured"
    [] stage = "llm" -> "No LLM service configured"
    [] stage = "tts" -> "No TTS service configured"

LiveKitRequired == "LiveKit API key and secret are required"
LatencyWarning == "Target latency > 3s may impact user experience"

\* The body of the loop over priorities.items(), for one stage.
CheckService(status, stage, providers) ==
  LET listed == [status EXCEPT !.available_services = @ @@ (stage :> providers)]
  IN IF providers = <<>>
     THEN [listed EXCEPT !.errors = Append(@, NoService(stage)), !.valid = FALSE]
     ELSE listed

\* A check of the LiveKit key alone.
CheckLiveKit_KeyOnly(status, cls) ==
  IF ~Truthy(cls, "LIVEKIT_API_KEY")
  THEN [status EXCEPT !.errors = Append(@, LiveKitRequired), !.valid = FALSE]
  ELSE status

\* if not cls.LIVEKIT_API_KEY or not cls.LIVEKIT_API_SECRET
CheckLiveKit(status, cls) ==
  IF ~Truthy(cls, "LIVEKIT_API_KEY") \/ ~Truthy(cls, "LIVEKIT_API_SECRET")
  THEN [status EXCEPT !.errors = Append(@, LiveKitRequired), !.valid = FALSE]
  ELSE status

\* if cls.TARGET_LATENCY > 3.0
CheckLatency(status, cls) ==
  IF cls["TARGET_LATENCY"] > 3 * TicksPerSecond
  THEN [status EXCEPT !.warnings = Append(@, LatencyWarning)]
  ELSE status

\* Config.validate_config(): the status, built up in the order of the code.
validate_config(cls) ==
  LET status == [valid |-> TRUE, errors |-> <<>>, warnings |-> <<>>,
                 available_services |-> <<>>]
      priorities == get_service_priority(cls)
      s1 == CheckLiveKit(status, cls)
      s2 == CheckService(s1, "stt", priorities.stt)
      s3 == CheckService(s2, "llm", priorities.llm)
      s4 == CheckService(s3, "tts", priorities.tts)
  IN CheckLatency(s4, cls)

\* The providers entrypoint constructs, each chosen by os.getenv.
BindProviders(env) ==
  [stt |-> IF Truthy(env, "DEEPGRAM_API_KEY") THEN "deepgram" ELSE "openai",
   llm |-> IF Truthy(env, "GROQ_API_KEY") THEN "groq" ELSE "openai",
   tts |-> IF Truthy(env, "ELEVENLABS_API_KEY") THEN "elevenlabs"
           ELSE IF Truthy(env, "CARTESIA_API_KEY") THEN "cartesia"
           ELSE "openai"]

Unbound == [stt |-> "none", llm |-> "none", tts |-> "none"]

\* The state once config and main are imported, as test_setup.py imports
\* them: Config is read from the environment env0 the process was started
\* in and validated, then main's load_dotenv() adds the names of the .env
\* file.
Imported(env0, file) ==
  /\ Config = LoadConfig(env0)
  /\ config_status = validate_config(LoadConfig(env0))
  /\ environ = load_dotenv(env0, file)
  /\ test_results = [config_validation |-> FALSE]

\* The environments in which each name of `names` is unset or has one of
\* `values`.
Environs(names, values) ==
  UNION {[set -> values] : set \in SUBSET names}

\* Every credential set, no .env file.
FullEnviron == [name \in CredentialKeys |-> "key"]

\* --------------------------------------------------------------- Init
\* A row left in the file by an earlier run of the program, and the row
\* another worker process adds.
OtherRow(id) ==
  [session_id |-> id, start_time |-> 0, end_time |-> 0, total_duration |-> 0,
   user_messages |-> 0, agent_responses |-> 0, interruptions |-> 0,
   avg_stt |-> <<0, 1>>, avg_ttft |-> <<0, 1>>, avg_ttfd |-> <<0, 1>>,
   avg_latency |-> <<0, 1>>, max_latency |-> 0, min_latency |-> 0,
   errors |-> 0, target_met |-> TRUE]

PriorRow == OtherRow(0)
PeerRow == OtherRow(NaN)

\* The worker, its tracker and the file, before any job.
InitWorker ==
  /\ clock = StartClock
  /\ concurrent \in BOOLEAN
  /\ tracker = NewTracker
  /\ phase = "Idle"
  /\ sink \in {<<>>, <<PriorRow>>}
  /\ sink0 = sink
  /\ sinkCorrupt = FALSE
  /\ calls = 0
  /\ pc = [j \in Jobs |-> "start"]
  /\ t0 = [j \in Jobs |-> 0]
  /\ start_tts = [j \in Jobs |-> 0]
  /\ arrived = [j \in Jobs |-> 0]
  /\ taken = [j \in Jobs |-> 0]
  /\ stale = [j \in Jobs |-> FALSE]
  /\ sent = [j \in Jobs |-> 0]
  /\ df = [j \in Jobs |-> <<>>]
  /\ endCalls = [j \in Jobs |-> 0]
  /\ saveCalls = [j \in Jobs |-> 0]
  /\ ioFailed = [j \in Jobs |-> FALSE]
  /\ sid = [j \in Jobs |-> None]
  /\ raisedAt = [j \in Jobs |-> "none"]
  /\ bound = [j \in Jobs |-> Unbound]
  /\ peerPc = "idle"
  /\ peerDf = <<>>

Init == InitWorker /\ Imported(FullEnviron, <<>>)

\* ------------------------------------------------- VoiceAgent.entrypoint
\* The positions at which the coroutine is suspended in an await.
Awaiting == {"wait_audio", "stt", "llm", "tts", "send"}
InFlight == {"stt", "llm", "tts"}
Live == Awaiting \cup {"hung"}

\* No other job of the worker is running.
Alone(j) == \A k \in Jobs \ {j} : pc[k] \in {"start", "done"}

\* save_to_excel has no await between its read and its write: no other
\* coroutine of the worker's event loop runs while a job is between them.
LoopFree(j) == \A k \in Jobs \ {j} : pc[k] # "save_write"

\* f"session_{int(time.time())}"
SessionId(now) == now \div TicksPerSecond

\* finally: end_session(), then save_to_excel() up to its read of the file.
\* The loop's locals go out of use.
Finally(j, self) ==
  LET ended == end_session(self, clock) IN
  /\ tracker' = ended
  /\ phase' = "Closed"
  /\ t0' = [t0 EXCEPT ![j] = 0]
  /\ start_tts' = [start_tts EXCEPT ![j] = 0]
  /\ stale' = [stale EXCEPT ![j] = FALSE]
  /\ endCalls' = [endCalls EXCEPT ![j] = @ + 1]
  /\ saveCalls' = [saveCalls EXCEPT ![j] = @ + 1]
  /\ \/ /\ ~sinkCorrupt
        /\ df' = [df EXCEPT ![j] = IF FileExists
                                   THEN ConcatExisting(sink, ended)
                                   ELSE <<Summary(ended)>>]
        /\ pc' = [pc EXCEPT ![j] = "save_write"]
        /\ UNCHANGED ioFailed
     \/ /\ FileExists                       \* pd.read_excel raises
        /\ ioFailed' = [ioFailed EXCEPT ![j] = TRUE]
        /\ pc' = [pc EXCEPT ![j] = "done"]
        /\ UNCHANGED df

\* An except block that goes to the teardown without counting the error.
ExceptFinally_Silent(j, self) == Finally(j, self)

\* except Exception: record_error(), then the finally block.
ExceptFinally(j, self) == Finally(j, record_error(self))

\* Lines 112-157: the session id, start_session, the construction of the
\* three providers (which may raise), up to the first wait for audio.
Start(j) ==
  /\ pc[j] = "start"
  /\ LoopFree(j)
  /\ concurrent \/ Alone(j)
  /\ LET session_id == SessionId(clock)
         started == start_session(tracker, session_id, clock)
     IN /\ sid' = [sid EXCEPT ![j] = session_id]
        /\ \/ /\ tracker' = started
              /\ phase' = "Recording"
              /\ pc' = [pc EXCEPT ![j] = "wait_audio"]
              /\ bound' = [bound EXCEPT ![j] = BindProviders(environ)]
              /\ UNCHANGED <<t0, start_tts, stale, df, endCalls, saveCalls, ioFailed, raisedAt>>
           \/ /\ ExceptFinally(j, started)
              /\ raisedAt' = [raisedAt EXCEPT ![j] = "bind"]
              /\ UNCHANGED bound
  /\ UNCHANGED <<clock, constVars, calls, sinkVars, streamVars, sent, peerVars>>

\* async for audio_chunk in ctx.audio_stream(): the next chunk, start_stt.
NextAudio(j) ==
  /\ pc[j] = "wait_audio"
  /\ LoopFree(j)
  /\ taken[j] < arrived[j]
  /\ taken' = [taken EXCEPT ![j] = @ + 1]
  /\ t0' = [t0 EXCEPT ![j] = clock]
  /\ stale' = [stale EXCEPT ![j] = FALSE]
  /\ pc' = [pc EXCEPT ![j] = "stt"]
  /\ UNCHANGED <<clock, constVars, calls, trackerVars, sinkVars, arrived, sent, df,
                 endCalls, saveCalls, ioFailed, sid, bound, start_tts, raisedAt, peerVars>>

\* The transport closes the audio stream with nothing left in it: the loop
\* is left normally.
StreamEnd(j) ==
  /\ pc[j] = "wait_audio"
  /\ LoopFree(j)
  /\ taken[j] = arrived[j]
  /\ Finally(j, tracker)
  /\ UNCHANGED <<clock, constVars, calls, sinkVars, streamVars, sent, sid, bound, raisedAt, peerVars>>

\* A transcription whose user message is never counted.
STTReturn_Uncounted(j) ==
  /\ pc[j] = "stt"
  /\ LoopFree(j)
  /\ LET stt_delay == clock - t0[j] IN
       tracker' = record_stt_delay(tracker, stt_delay)
  /\ t0' = [t0 EXCEPT ![j] = clock]
  /\ pc' = [pc EXCEPT ![j] = "llm"]
  /\ UNCHANGED <<clock, constVars, calls, phase, sinkVars, streamVars, stale, sent, df,
                 endCalls, saveCalls, ioFailed, sid, bound, start_tts, raisedAt, peerVars>>

\* user_text = await stt.transcribe(audio_chunk) returns.
STTReturn(j) ==
  /\ pc[j] = "stt"
  /\ LoopFree(j)
  /\ LET stt_delay == clock - t0[j] IN
       tracker' = record_user_message(record_stt_delay(tracker, stt_delay))
  /\ t0' = [t0 EXCEPT ![j] = clock]
  /\ pc' = [pc EXCEPT ![j] = "llm"]
  /\ UNCHANGED <<clock, constVars, calls, phase, sinkVars, streamVars, stale, sent, df,
                 endCalls, saveCalls, ioFailed, sid, bound, start_tts, raisedAt, peerVars>>

\* The stopwatch of the LLM call started anew when synthesis starts.
LLMReturn_Restart(j) ==
  /\ pc[j] = "llm"
  /\ LoopFree(j)
  /\ LET ttft == clock - t0[j] IN tracker' = record_ttft(tracker, ttft)
  /\ t0' = [t0 EXCEPT ![j] = clock]
  /\ start_tts' = [start_tts EXCEPT ![j] = clock]
  /\ pc' = [pc EXCEPT ![j] = "tts"]
  /\ UNCHANGED <<clock, constVars, calls, phase, sinkVars, streamVars, stale, sent, df,
                 endCalls, saveCalls, ioFailed, sid, bound, raisedAt, peerVars>>

\* response_text = await llm_service.chat(user_text) returns; start_tts.
LLMReturn(j) ==
  /\ pc[j] = "llm"
  /\ LoopFree(j)
  /\ LET ttft == clock - t0[j] IN tracker' = record_ttft(tracker, ttft)
  /\ start_tts' = [start_tts EXCEPT ![j] = clock]
  /\ pc' = [pc EXCEPT ![j] = "tts"]
  /\ UNCHANGED <<clock, constVars, calls, phase, sinkVars, streamVars, t0, stale, sent, df,
                 endCalls, saveCalls, ioFailed, sid, bound, raisedAt, peerVars>>

\* A synthesis whose response is never counted.
TTSReturn_Uncounted(j) ==
  /\ pc[j] = "tts"
  /\ LoopFree(j)
  /\ LET ttfd == clock - t0[j] IN tracker' = record_ttfd(tracker, ttfd)
  /\ pc' = [pc EXCEPT ![j] = "send"]
  /\ UNCHANGED <<clock, constVars, calls, phase, sinkVars, streamVars, t0, start_tts, stale, sent, df,
                 endCalls, saveCalls, ioFailed, sid, bound, raisedAt, peerVars>>

\* audio_response = await tts.synthesize(response_text) returns; the delay
\* is taken from start_llm.
TTSReturn(j) ==
  /\ pc[j] = "tts"
  /\ LoopFree(j)
  /\ LET ttfd == clock - t0[j] IN
       tracker' = record_agent_response(record_ttfd(tracker, ttfd))
  /\ pc' = [pc EXCEPT ![j] = "send"]
  /\ UNCHANGED <<clock, constVars, calls, phase, sinkVars, streamVars, t0, start_tts, stale, sent, df,
                 endCalls, saveCalls, ioFailed, sid, bound, raisedAt, peerVars>>

\* await ctx.send_audio(audio_response) returns.
SendReturn(j) ==
  /\ pc[j] = "send"
  /\ LoopFree(j)
  /\ sent' = [sent EXCEPT ![j] = @ + 1]
  /\ pc' = [pc EXCEPT ![j] = "wait_audio"]
  /\ UNCHANGED <<clock, constVars, calls, trackerVars, sinkVars, streamVars, t0, start_tts, stale, df,
                 endCalls, saveCalls, ioFailed, sid, bound, raisedAt, peerVars>>

\* The awaited call (the audio stream, a provider, send_audio) raises.
AwaitRaises(j) ==
  /\ pc[j] \in Awaiting
  /\ LoopFree(j)
  /\ ExceptFinally(j, tracker)
  /\ raisedAt' = [raisedAt EXCEPT ![j] = pc[j]]
  /\ UNCHANGED <<clock, constVars, calls, sinkVars, streamVars, sent, sid, bound, peerVars>>

\* Cancellation that leaves the coroutine without its finally block.
Cancel_SkipsTeardown(j) ==
  /\ pc[j] \in Live
  /\ pc' = [pc EXCEPT ![j] = "done"]
  /\ UNCHANGED <<clock, constVars, calls, trackerVars, sinkVars, streamVars, t0, start_tts,
                 stale, sent, df, endCalls, saveCalls, ioFailed, sid, bound, raisedAt,
                 peerVars>>

\* The task is cancelled while suspended: CancelledError is no Exception,
\* so only the finally block runs.
Cancel(j) ==
  /\ pc[j] \in Live
  /\ LoopFree(j)
  /\ Finally(j, tracker)
  /\ UNCHANGED <<clock, constVars, calls, sinkVars, streamVars, sent, sid, bound, raisedAt, peerVars>>

\* df.to_excel(filename): the file is replaced, or the write raises and
\* leaves the file as it was or broken off.
SaveWrite(j) ==
  /\ pc[j] = "save_write"
  /\ pc' = [pc EXCEPT ![j] = "done"]
  /\ df' = [df EXCEPT ![j] = <<>>]
  /\ \/ /\ sink' = ToExcel(df[j])
        /\ sinkCorrupt' = FALSE
        /\ UNCHANGED ioFailed
     \/ /\ ioFailed' = [ioFailed EXCEPT ![j] = TRUE]
        /\ UNCHANGED sinkVars
     \/ /\ ioFailed' = [ioFailed EXCEPT ![j] = TRUE]
        /\ sink' = <<>>
        /\ sinkCorrupt' = TRUE
  /\ UNCHANGED <<clock, constVars, calls, trackerVars, streamVars, t0, start_tts, stale, sent,
                 endCalls, saveCalls, sid, bound, raisedAt, peerVars>>

\* The steps the code of job j takes when the call it awaits answers.
JobStep(j) ==
  \/ Start(j)
  \/ NextAudio(j)
  \/ StreamEnd(j)
  \/ STTReturn(j)
  \/ LLMReturn(j)
  \/ TTSReturn(j)
  \/ SendReturn(j)
  \/ AwaitRaises(j)
  \/ SaveWrite(j)

\* ------------------------------------------------------ the environment
\* The transport delivers a segment to the job's audio stream, at most
\* `segments` of them.
AudioArrives(j, segments) ==
  /\ pc[j] \in Live
  /\ arrived[j] < segments
  /\ arrived' = [arrived EXCEPT ![j] = @ + 1]
  /\ stale' = [stale EXCEPT ![j] = @ \/ pc[j] \in InFlight]
  /\ UNCHANGED <<clock, constVars, calls, trackerVars, sinkVars, taken, pc, t0, start_tts, sent, df,
                 endCalls, saveCalls, ioFailed, sid, bound, raisedAt, peerVars>>

\* A provider call or send_audio never answers.
Hang(j) ==
  /\ pc[j] \in Awaiting \ {"wait_audio"}
  /\ pc' = [pc EXCEPT ![j] = "hung"]
  /\ UNCHANGED <<clock, constVars, calls, trackerVars, sinkVars, streamVars, t0, start_tts, stale, sent, df,
                 endCalls, saveCalls, ioFailed, sid, bound, raisedAt, peerVars>>

\* Time passes while some job is suspended, at most `ticks` ticks.
Tick(ticks) ==
  /\ clock < StartClock + ticks
  /\ \E j \in Jobs : pc[j] \in Awaiting
  /\ clock' = clock + 1
  /\ UNCHANGED <<constVars, calls, trackerVars, sinkVars, streamVars, jobVars, peerVars>>

\* Another worker process runs save_to_excel on the same file.
PeerRead ==
  /\ peerPc = "idle"
  /\ ~sinkCorrupt
  /\ peerDf' = sink \o <<PeerRow>>
  /\ peerPc' = "write"
  /\ UNCHANGED <<clock, constVars, calls, trackerVars, sinkVars, streamVars, jobVars>>

PeerWrite ==
  /\ peerPc = "write"
  /\ sink' = ToExcel(peerDf)
  /\ sinkCorrupt' = FALSE
  /\ peerPc' = "done"
  /\ UNCHANGED <<clock, constVars, calls, trackerVars, streamVars, jobVars, peerDf>>

Env(j, segments) == AudioArrives(j, segments) \/ Hang(j) \/ Cancel(j)

\* Jobs of one worker interleaved at their awaits, and a peer process.
Next ==
  \/ \E j \in Jobs : JobStep(j)
  \/ \E j \in Jobs : Env(j, MultiSegments)
  \/ Tick(MultiTicks)
  \/ PeerRead
  \/ PeerWrite

InitConcurrent == Init /\ concurrent = TRUE

Spec == InitConcurrent /\ [][Next]_vars

\* The jobs of one worker one after the other, no other process at the file.
NextSeq ==
  \/ \E j \in Jobs : JobStep(j)
  \/ \E j \in Jobs : Env(j, MultiSegments)
  \/ Tick(MultiTicks)

InitSeq == Init /\ concurrent = FALSE

SpecSeq == InitSeq /\ [][NextSeq]_vars

\* The first job of a new worker, alone.
NextOne ==
  \/ JobStep(1)
  \/ Env(1, MaxSegments)
  \/ Tick(MaxTicks)

SpecOne == InitSeq /\ [][NextOne]_vars

\* ------------------------------------------------- a client of the tracker
\* The tracker used directly, as SetupTester.test_metrics_system does, its
\* methods called in any order.
SampleMethods == {"record_stt_delay", "record_ttft", "record_ttfd",
                  "record_total_latency"}
CountMethods == {"record_interruption", "record_user_message",
                 "record_agent_response", "record_error"}

Record(self, method, value) ==
  CASE method = "record_stt_delay" -> record_stt_delay(self, value)
    [] method = "record_ttft" -> record_ttft(self, value)
    [] method = "record_ttfd" -> record_ttfd(self, value)
    [] method = "record_total_latency" -> record_total_latency(self, value)
    [] method = "record_interruption" -> record_interruption(self)
    [] method = "record_user_message" -> record_user_message(self)
    [] method = "record_agent_response" -> record_agent_response(self)
    [] method = "record_error" -> record_error(self)

CallStart ==
  /\ tracker' = start_session(tracker, SessionId(clock), clock)
  /\ phase' = "Recording"
  /\ UNCHANGED <<clock, constVars, calls, sinkVars, streamVars, jobVars, peerVars>>

CallRecord ==
  /\ calls < MaxCalls
  /\ calls' = calls + 1
  /\ \/ \E method \in SampleMethods, value \in 0..MaxSample :
          tracker' = Record(tracker, method, value)
     \/ \E method \in CountMethods : tracker' = Record(tracker, method, 0)
  /\ UNCHANGED <<clock, constVars, phase, sinkVars, streamVars, jobVars, peerVars>>

CallEnd ==
  /\ tracker' = end_session(tracker, clock)
  /\ phase' = "Closed"
  /\ UNCHANGED <<clock, constVars, calls, sinkVars, streamVars, jobVars, peerVars>>

\* save_to_excel as one step: nothing else is at the file.
CallSave ==
  /\ calls < MaxCalls
  /\ calls' = calls + 1
  /\ \/ /\ ~sinkCorrupt
        /\ sink' = ToExcel(IF FileExists THEN ConcatExisting(sink, tracker)
                           ELSE <<Summary(tracker)>>)
        /\ UNCHANGED sinkCorrupt
     \/ /\ FileExists                      \* pd.read_excel raises
        /\ UNCHANGED sinkVars
     \/ /\ ~sinkCorrupt                    \* df.to_excel raises
        /\ \/ UNCHANGED sinkVars
           \/ sink' = <<>> /\ sinkCorrupt' = TRUE
  /\ UNCHANGED <<clock, constVars, trackerVars, streamVars, jobVars, peerVars>>

ClientWaits ==
  /\ clock < StartClock + MultiTicks
  /\ clock' = clock + 1
  /\ UNCHANGED <<constVars, calls, trackerVars, sinkVars, streamVars, jobVars, peerVars>>

NextTracker ==
  \/ CallStart
  \/ CallRecord
  \/ CallEnd
  \/ CallSave
  \/ ClientWaits

SpecTracker == InitSeq /\ [][NextTracker]_vars

\* ------------------------------------------------------ configuration
\* The first job of a worker started in any environment that sets each
\* credential or leaves it unset.
InitConfig ==
  /\ InitWorker
  /\ concurrent = FALSE
  /\ \E env0 \in Environs(CredentialKeys, {"key"}) : Imported(env0, <<>>)

NextConfig ==
  \/ JobStep(1)
  \/ Env(1, MultiSegments)
  \/ Tick(MultiTicks)

SpecConfig == InitConfig /\ [][NextConfig]_vars

\* TARGET_LATENCY unset, at 3 seconds, and a tick above.
LatencySettings ==
  {<<>>} \cup {"TARGET_LATENCY" :> ticks :
                 ticks \in {3 * TicksPerSecond, 3 * TicksPerSecond + 1}}

\* The .env files that set at most MaxDotenvKeys credentials.
DotenvFiles ==
  {file \in Environs(CredentialKeys, {"key"}) :
     Cardinality(DOMAIN file) <= MaxDotenvKeys}

\* test_setup.py: config imported in an environment that sets each
\* credential, sets it to the empty string or leaves it unset; then main
\* imported, whose load_dotenv() reads the .env file.
InitValidate ==
  /\ InitWorker
  /\ concurrent = FALSE
  /\ \E env0 \in Environs(CredentialKeys, {"", "key"}),
        latency \in LatencySettings, file \in DotenvFiles :
       Imported(env0 @@ latency, file)

\* SetupTester.test_configuration()
TestConfiguration ==
  LET status == validate_config(Config) IN
  /\ config_status' = status
  /\ test_results' = IF status.valid
                     THEN [test_results EXCEPT !.config_validation = TRUE]
                     ELSE test_results
  /\ UNCHANGED <<clock, concurrent, sink0, environ, Config, calls, trackerVars,
                 sinkVars, streamVars, jobVars, peerVars>>

SpecValidate == InitValidate /\ [][TestConfiguration]_vars

\* ----------------------------------------------------------------- claims
\* The row job j is about to write, and the row a finished export left.
NewRow(j) == df[j][Len(df[j])]
LastRow == sink[Len(sink)]
Exported(self) == ToExcel(<<Summary(self)>>)[1]

\* C1: whatever ends a run of entrypoint (the stream ends, a provider call
\* or send raises, provider construction raises, the task is cancelled),
\* end_session() and save_to_excel() are each called exactly once in the
\* run, never more, and the closed session's row is the last row of the
\* sink unless the export's own access to the file failed.
C1_TeardownOnce ==
  \A j \in Jobs :
    /\ endCalls[j] <= 1
    /\ saveCalls[j] <= 1
    /\ pc[j] \in {"save_write", "done"} => endCalls[j] = 1 /\ saveCalls[j] = 1
    /\ pc[j] = "done" /\ ~ioFailed[j] =>
         /\ sink # <<>>
         /\ LastRow = Exported(tracker)
         /\ LastRow.session_id = sid[j]
         /\ LastRow.end_time # NaN

\* A run ended by the TTS call raising in its second cycle, exported.
C1_Witness ==
  /\ pc[1] = "done"
  /\ raisedAt[1] = "tts"
  /\ taken[1] = 2
  /\ ~ioFailed[1]

\* C2: an STT failure on one segment does not end the session: every
\* segment of the stream is still taken up, and the run ends with
\* errors = 1 and user_messages = N - 1 for a stream of N segments.
C2_SttFailureContinues ==
  \A j \in Jobs :
    pc[j] = "done" /\ raisedAt[j] = "stt" =>
      /\ taken[j] = arrived[j]
      /\ tracker.metrics.errors = 1
      /\ tracker.metrics.user_messages = arrived[j] - 1

\* C3: when audio arrives while a cycle is transcribing, generating or
\* synthesizing, an interruption is recorded and the cycle is abandoned: no
\* audio of it is handed to the transport.
C3_InterruptionHandled ==
  \A j \in Jobs :
    stale[j] => tracker.metrics.interruptions_count >= 1 /\ pc[j] # "send"

\* What the record methods add to.
Recorded(self) ==
  <<self.metrics.stt_delays, self.metrics.ttft_delays, self.metrics.ttfd_delays,
    self.metrics.total_latencies, self.metrics.interruptions_count,
    self.metrics.user_messages, self.metrics.agent_responses,
    self.metrics.errors>>

\* C4: a record method called before start_session() or after end_session()
\* is rejected: it leaves the recorded samples and counters unchanged.
C4_RecordOutsideSessionRejected ==
  [][phase # "Recording" /\ phase' = phase => Recorded(tracker') = Recorded(tracker)]_vars

\* C5: two runs of the registered entrypoint, interleaved at their awaits,
\* share no session state: the row a run exports carries its own session id
\* and no more user messages or agent responses than segments it took up.
C5_SessionsIsolated ==
  \A j \in Jobs :
    pc[j] = "save_write" =>
      /\ NewRow(j).session_id = sid[j]
      /\ NewRow(j).user_messages <= taken[j]
      /\ NewRow(j).agent_responses <= taken[j]

\* C6: exports to the same sink from this worker and from another process,
\* their reads and writes interleaved, lose nothing: when all are through
\* without a failure, the sink holds the earlier rows, the other process's
\* row and one row per finished job.
C6_ConcurrentAppends ==
  LET done == {j \in Jobs : pc[j] = "done"} IN
  (/\ peerPc = "done"
   /\ done # {}
   /\ \A j \in Jobs : pc[j] \in {"start", "done"} /\ ~ioFailed[j]) =>
    /\ Len(sink) = Len(sink0) + 1 + Cardinality(done)
    /\ \A i \in 1..Len(sink0) : sink[i] = sink0[i]
    /\ \E i \in 1..Len(sink) : sink[i] = PeerRow
    /\ \A j \in done : \E i \in 1..Len(sink) : sink[i].session_id = sid[j]

\* C7: end_session() followed by save_to_excel() appends exactly one row,
\* however many cycles the session ran: after a run whose export did not
\* fail the sink is the rows it held before, unchanged and in order,
\* followed by the row of the session.
C7_OneRowPerSession ==
  \A j \in Jobs :
    pc[j] = "done" /\ ~ioFailed[j] => sink = ToExcel(sink0 \o <<Summary(tracker)>>)

\* A session of two full cycles exported to a file that held a row.
C7_Witness ==
  /\ pc[1] = "done"
  /\ ~ioFailed[1]
  /\ sent[1] = 2
  /\ sink0 # <<>>
  /\ Len(sink) = 2

\* C8: a session started on a tracker that already ran one exports only
\* its own samples and counters: no more user messages, agent responses or
\* errors than its own run made, and zero averages when it took no segment.
C8_NoCrossSessionLeak ==
  \A j \in Jobs :
    pc[j] = "save_write" =>
      /\ NewRow(j).user_messages <= taken[j]
      /\ NewRow(j).agent_responses <= taken[j]
      /\ NewRow(j).errors <= 1
      /\ taken[j] = 0 => NewRow(j).avg_stt = <<0, 1>>

\* C9: start_session() on a tracker that is Recording fails: while a
\* session is open its id and start timestamp are never overwritten.
C9_StartWhileRecordingFails ==
  [][phase = "Recording" =>
       /\ tracker'.metrics.session_id = tracker.metrics.session_id
       /\ tracker'.metrics.start_time = tracker.metrics.start_time
       /\ tracker'.session_start = tracker.session_start]_vars

\* C10: an external call that never answers is ended by a timeout: a job
\* suspended in such a call still has a step of its own to take.
C10_CallsBounded ==
  \A j \in Jobs : pc[j] = "hung" => ENABLED JobStep(j)

\* What a finished or finishing run left in the tracker.
Over(j) == pc[j] \in {"save_write", "done"}
Counts(self) ==
  [user_messages |-> self.metrics.user_messages,
   agent_responses |-> self.metrics.agent_responses,
   interruptions |-> self.metrics.interruptions_count,
   errors |-> self.metrics.errors,
   stt |-> Len(self.metrics.stt_delays),
   ttft |-> Len(self.metrics.ttft_delays),
   ttfd |-> Len(self.metrics.ttfd_delays)]

\* C11: a session in which N segments were taken up and every provider
\* call and every send succeeded ends with user_messages = N,
\* agent_responses = N, interruptions = 0, errors = 0 and exactly N entries
\* in each of the STT, TTFT and TTFD lists.
C11_Conservation ==
  \A j \in Jobs :
    Over(j) /\ raisedAt[j] = "none" /\ sent[j] = taken[j] =>
      Counts(tracker) = [user_messages |-> taken[j], agent_responses |-> taken[j],
                         interruptions |-> 0, errors |-> 0,
                         stt |-> taken[j], ttft |-> taken[j], ttfd |-> taken[j]]

\* A stream of two segments, both answered, then closed.
C11_Witness ==
  /\ pc[1] = "done"
  /\ raisedAt[1] = "none"
  /\ arrived[1] = 2
  /\ sent[1] = 2

\* C12: every cycle that gets to sending its audio has recorded one agent
\* response and one total-latency sample, so a session ends with as many
\* total-latency samples as agent responses.
C12_LatencyPerResponse ==
  \A j \in Jobs :
    Over(j) => Len(tracker.metrics.total_latencies) = tracker.metrics.agent_responses

\* C19: a run ended by the STT, LLM or TTS call raising has recorded
\* exactly one error, and the segment whose cycle failed got no response:
\* one audio and one agent response fewer than segments taken up.
C19_FailureYieldsNoResponse ==
  \A j \in Jobs :
    Over(j) /\ raisedAt[j] \in {"stt", "llm", "tts"} =>
      /\ tracker.metrics.errors = 1
      /\ sent[j] = taken[j] - 1
      /\ tracker.metrics.agent_responses = taken[j] - 1

\* The LLM call raising on the second segment of a stream.
C19_Witness ==
  /\ pc[1] = "done"
  /\ raisedAt[1] = "llm"
  /\ taken[1] = 2
  /\ sent[1] = 1

\* avg is the mean of the samples xs: sum / N, and 0 for no sample.
IsMean(avg, xs) ==
  IF xs = <<>> THEN avg = <<0, 1>>
  ELSE avg[2] > 0 /\ avg[1] * Len(xs) = SumSeq(xs) * avg[2]

\* hi and lo are the largest and the smallest of the samples xs, 0 for none.
AreExtremes(hi, lo, xs) ==
  IF xs = <<>> THEN hi = 0 /\ lo = 0
  ELSE /\ \E i \in 1..Len(xs) : xs[i] = hi
       /\ \E i \in 1..Len(xs) : xs[i] = lo
       /\ \A i \in 1..Len(xs) : lo <= xs[i] /\ xs[i] <= hi

\* C13: the row save_to_excel writes carries, for each measured quantity,
\* the mean sum / N of the N samples recorded, and for the total latency
\* their minimum and maximum; with no sample every one of them is 0.
C13_ExportedStatistics ==
  [][sink' # sink /\ sink' # <<>> =>
       LET row == sink'[Len(sink')]
           m == tracker.metrics
       IN /\ IsMean(row.avg_stt, m.stt_delays)
          /\ IsMean(row.avg_ttft, m.ttft_delays)
          /\ IsMean(row.avg_ttfd, m.ttfd_delays)
          /\ IsMean(row.avg_latency, m.total_latencies)
          /\ AreExtremes(row.max_latency, row.min_latency, m.total_latencies)]_vars

\* Two different total latencies with a mean that is no whole number of
\* ticks, exported.
C13_Witness ==
  /\ sink # sink0
  /\ sink # <<>>
  /\ Len(tracker.metrics.total_latencies) = 2
  /\ LastRow.avg_latency[2] = 2
  /\ LastRow.max_latency # LastRow.min_latency

\* C18: session ids are unique: two sessions of one worker, started in
\* sequence or interleaved, never carry the same id.
C18_SessionIdsUnique ==
  \A j, k \in Jobs :
    j # k /\ sid[j] # None /\ sid[k] # None => sid[j] # sid[k]

\* C14: when the configuration is invalid (a transport credential missing
\* or a stage without provider) the process serves no session: no job
\* leaves its start, no session is started on the tracker and no provider
\* is bound.
C14_InvalidConfigRefused ==
  ~config_status.valid =>
    /\ tracker.session_start = None
    /\ \A j \in Jobs : pc[j] = "start" /\ bound[j] = Unbound

\* C15: for a stage whose list of available providers is empty the
\* selection fails: no job binds a provider for that stage, and so none is
\* called.
C15_NoProviderNoBinding ==
  \A j \in Jobs, stage \in Stages :
    config_status.available_services[stage] = <<>> => bound[j][stage] = "none"

\* The credentials that make a provider of the stage available.
KeysOf(stage) ==
  CASE stage = "stt" -> {"DEEPGRAM_API_KEY", "OPENAI_API_KEY"}
    [] stage = "llm" -> {"GROQ_API_KEY", "OPENAI_API_KEY"}
    [] stage = "tts" -> {"ELEVENLABS_API_KEY", "CARTESIA_API_KEY", "OPENAI_API_KEY"}

Holds(list, x) == \E i \in 1..Len(list) : list[i] = x

\* C16: the status validate_config() returns is valid exactly when both
\* transport credentials are present and every stage has a provider
\* available; a stage none of whose credentials is present has the empty
\* list and an error naming it; a target latency above 3 seconds adds a
\* warning and leaves valid as it is with the default.
C16_ValidExactlyWhenComplete ==
  LET services == config_status.available_services IN
  /\ config_status.valid <=>
       /\ Truthy(Config, "LIVEKIT_API_KEY")
       /\ Truthy(Config, "LIVEKIT_API_SECRET")
       /\ \A stage \in Stages : services[stage] # <<>>
  /\ \A stage \in Stages :
       (\A name \in KeysOf(stage) : ~Truthy(Config, name)) =>
         /\ services[stage] = <<>>
         /\ Holds(config_status.errors, NoService(stage))
  /\ Config["TARGET_LATENCY"] > 3 * TicksPerSecond <=>
       Holds(config_status.warnings, LatencyWarning)
  /\ config_status.valid =
       validate_config([Config EXCEPT !["TARGET_LATENCY"] = DefaultTargetLatency]).valid

\* test_configuration() found valid a configuration with a latency above
\* 3 seconds and an STT credential set to the empty string.
C16_Witness ==
  /\ test_results.config_validation
  /\ config_status.warnings # <<>>
  /\ "DEEPGRAM_API_KEY" \in DOMAIN Config
  /\ ~Truthy(Config, "DEEPGRAM_API_KEY")
  /\ config_status.available_services["stt"] = <<"openai">>

\* C17: a call of validate_config() returns the status of the credentials
\* the environment holds at the call, those entrypoint reads: one added
\* after config was imported is taken into account, and the first
\* provider listed for a stage is the one entrypoint would bind.
C17_ValidationFresh ==
  [][TestConfiguration =>
       /\ config_status' = validate_config(LoadConfig(environ))
       /\ \A stage \in Stages :
            config_status'.available_services[stage] # <<>> =>
              Head(config_status'.available_services[stage])
                = BindProviders(environ)[stage]]_vars

\* C20: for every combination of credentials, the provider entrypoint
\* binds for a stage that has a provider available is the first entry of
\* available_services[stage].
C20_BindsFirstAvailable ==
  \A j \in Jobs, stage \in Stages :
    bound[j] # Unbound /\ config_status.available_services[stage] # <<>> =>
      bound[j][stage] = Head(config_status.available_services[stage])

\* A job transcribing with OpenAI, Groq and Cartesia bound: the second
\* choice for STT and TTS, the first for the LLM.
C20_Witness ==
  /\ pc[1] = "stt"
  /\ bound[1] = [stt |-> "openai", llm |-> "groq", tts |-> "cartesia"]
  /\ config_status.available_services["tts"] = <<"cartesia", "openai">>

Last(list) == list[Len(list)]

\* C21: the TTFD recorded for a cycle is the time from the start of the
\* cycle's LLM call to the return of its TTS call, that is the cycle's TTFT
\* plus the time the synthesis took, and so never less than the TTFT
\* recorded in the same cycle.
C21_TtfdFromLlmStart ==
  [][\A j \in Jobs :
       pc[j] = "tts" /\ pc'[j] = "send" =>
         LET ttft == Last(tracker.metrics.ttft_delays)
             ttfd == Last(tracker'.metrics.ttfd_delays)
         IN /\ Len(tracker'.metrics.ttfd_delays) = Len(tracker.metrics.ttfd_delays) + 1
            /\ ttfd = ttft + (clock - start_tts[j])
            /\ ttfd >= ttft]_vars

\* A cycle whose LLM call took one tick and whose synthesis took another.
C21_Witness ==
  /\ pc[1] = "send"
  /\ tracker.metrics.ttft_delays = <<1>>
  /\ tracker.metrics.ttfd_delays = <<2>>

\* C22: in every state of a single run on a new tracker there are as many
\* STT samples as user messages and as many TTFD samples as agent
\* responses, and agent_responses <= TTFT samples <= user_messages <=
\* agent_responses + 1.
C22_StagesInOrder ==
  LET m == tracker.metrics IN
  /\ Len(m.stt_delays) = m.user_messages
  /\ Len(m.ttfd_delays) = m.agent_responses
  /\ m.agent_responses <= Len(m.ttft_delays)
  /\ Len(m.ttft_delays) <= m.user_messages
  /\ m.user_messages <= m.agent_responses + 1

\* The second cycle of a run, synthesizing.
C22_Witness ==
  /\ pc[1] = "tts"
  /\ tracker.metrics.user_messages = 2
  /\ Len(tracker.metrics.ttft_delays) = 2
  /\ tracker.metrics.agent_responses = 1

\* C23: when a session is over, agent_responses is the number of audio
\* responses handed to the transport, also when a send failed.
C23_ResponsesAreSent ==
  \A j \in Jobs : Over(j) => tracker.metrics.agent_responses = sent[j]

\* C24: a failure of save_to_excel's read or write of the file is
\* swallowed: the run still ends, and the file holds the rows it held
\* before, readable, without the row of the session.
C24_ExportFailureHarmless ==
  \A j \in Jobs :
    ioFailed[j] => pc[j] = "done" /\ sink = sink0 /\ ~sinkCorrupt

====
